---- MODULE Spec2Model ----
(***************************************************************************)
(* The LONGALANG cascade: longa.py (the orchestrator), the agents it       *)
(* generates (longa1.py, longamax.py, loadedmax.py), the orchestrators     *)
(* that longamax.py launches detached, and the delete watcher delete1.py,  *)
(* all acting on one shared directory.  One action is one filesystem or    *)
(* process operation of one process; the processes interleave freely.      *)
(***************************************************************************)
EXTENDS Integers, Sequences, FiniteSets, TLC

(* Number of orchestrator processes followed (the first one and the ones   *)
(* launched detached by longamax.py).                                      *)
MaxRuns == 2

(* Number of changes made to the trigger files from outside the trigger    *)
(* watcher (a file created, a file taken away) in one behaviour.           *)
MaxToggles == 4

(* Number of times, in one behaviour, that the environment refuses an      *)
(* operation (a removal or a write denied, a launch failing).              *)
MaxFaults == 1

Runs == 1..MaxRuns

(* Code points named in src/longa.py line 23. *)
EmDash == 8212
EnDash == 8211

Files == {"longa.py", "longa1.py", "longa2.py", "longamax.py", "loadedmax.py", "loadmax.py"}

Agents == {"orchestrator", "successor", "recoveryA", "recoveryB"}

(* Longest content of longa.py tried when the capture is followed over     *)
(* many sources, and the bytes those contents are made of: a letter, a     *)
(* newline, both quotes, a backslash, a hyphen, an ampersand, and the      *)
(* bytes of the UTF-8 em dash (E2 80 94) and en dash (E2 80 93).           *)
MaxSourceLen == 3

SourceBytes == {97, 10, 39, 34, 92, 45, 38, 226, 128, 148, 147}

(* The entries tried at the selector's prompt: every text of at most       *)
(* MaxInputLen characters made of the digits 0 1 4 5, the signs, a space,  *)
(* a letter and a full stop; and the number of rejected entries followed   *)
(* in one selector run.                                                    *)
MaxInputLen == 2

MaxRejects == 2

InputChars == {48, 49, 52, 53, 43, 45, 32, 97, 46}

(* Byte contents longa.py may start with: an ASCII letter followed by the  *)
(* four string literals of its line 23, '\u2014', '--', '\u2013', '-',     *)
(* the dashes in UTF-8 as src/longa.py holds them (its only bytes above    *)
(* 127).                                                                   *)
InitialSources ==
    { <<97, 39, 226, 128, 148, 39, 44, 39, 45, 45, 39, 44,
            39, 226, 128, 147, 39, 44, 39, 45, 39>> }

VARIABLES exists, content, run, watcher, faults, trig, selector

vars == <<exists, content, run, watcher, faults, trig, selector>>

(***************************************************************************)
(* get_clean_ascii_code                                                    *)
(***************************************************************************)
RECURSIVE Digits(_)
Digits(n) == IF n < 10 THEN <<48 + n>> ELSE Digits(n \div 10) \o <<48 + (n % 10)>>

(* bytes.decode('latin-1'): byte b becomes code point b; never fails. *)
Latin1Decode(raw) == [k \in 1..Len(raw) |-> raw[k]]

(* str.replace(old, new), every occurrence from the left. *)
RECURSIVE Replace(_, _, _)
Replace(s, old, new) ==
    IF s = <<>> \/ old = <<>> THEN s
    ELSE IF Len(old) <= Len(s) /\ SubSeq(s, 1, Len(old)) = old
         THEN new \o Replace(SubSeq(s, Len(old) + 1, Len(s)), old, new)
    ELSE <<Head(s)>> \o Replace(Tail(s), old, new)

(* The four literals of line 23 as the repository's longa.py holds them.   *)
OriginalLine23 == <<<<EmDash>>, <<45, 45>>, <<EnDash>>, <<45>>>>

(* .replace(line23[1], line23[2]).replace(line23[3], line23[4]) *)
ReplaceDashes(line23, s) == Replace(Replace(s, line23[1], line23[2]), line23[3], line23[4])

(* str.encode('ascii', errors='xmlcharrefreplace'): c > 127 becomes &#c; *)
RECURSIVE XmlCharRefEncode(_)
XmlCharRefEncode(s) ==
    IF s = <<>> THEN <<>>
    ELSE (IF Head(s) < 128 THEN <<Head(s)>>
          ELSE <<38, 35>> \o Digits(Head(s)) \o <<59>>) \o XmlCharRefEncode(Tail(s))

get_clean_ascii_code_unencoded(line23, raw) == ReplaceDashes(line23, Latin1Decode(raw))

(* The function as it stands in a script whose line 23 holds the literals  *)
(* line23, applied to a file holding the bytes raw.                        *)
get_clean_ascii_code(line23, raw) == XmlCharRefEncode(ReplaceDashes(line23, Latin1Decode(raw)))

(***************************************************************************)
(* Embedding a captured string in generated source ({...!r}) and getting   *)
(* it back when the generated source is executed                           *)
(***************************************************************************)
Range(s) == {s[k] : k \in 1..Len(s)}

HexDigit(n) == IF n < 10 THEN 48 + n ELSE 87 + n

HexVal(c) == IF c <= 57 THEN c - 48 ELSE c - 87

(* One character of repr(str) inside quotes q. *)
EscapeChar(c, q) ==
    IF c = 92 THEN <<92, 92>>
    ELSE IF c = q THEN <<92, q>>
    ELSE IF c = 10 THEN <<92, 110>>
    ELSE IF c = 13 THEN <<92, 114>>
    ELSE IF c = 9 THEN <<92, 116>>
    ELSE IF c < 32 \/ c = 127 THEN <<92, 120, HexDigit(c \div 16), HexDigit(c % 16)>>
    ELSE <<c>>

RECURSIVE EscapeAll(_, _)
EscapeAll(s, q) == IF s = <<>> THEN <<>> ELSE EscapeChar(Head(s), q) \o EscapeAll(Tail(s), q)

(* repr of a str: single quotes unless it holds ' and no ". *)
PyRepr(s) ==
    LET q == IF 39 \in Range(s) /\ 34 \notin Range(s) THEN 34 ELSE 39
    IN <<q>> \o EscapeAll(s, q) \o <<q>>

RECURSIVE Unescape(_)
Unescape(b) ==
    IF b = <<>> THEN <<>>
    ELSE IF Head(b) = 92 /\ Len(b) >= 2
         THEN IF b[2] = 110 THEN <<10>> \o Unescape(SubSeq(b, 3, Len(b)))
              ELSE IF b[2] = 114 THEN <<13>> \o Unescape(SubSeq(b, 3, Len(b)))
              ELSE IF b[2] = 116 THEN <<9>> \o Unescape(SubSeq(b, 3, Len(b)))
              ELSE IF b[2] = 120 /\ Len(b) >= 4
                   THEN <<16 * HexVal(b[3]) + HexVal(b[4])>> \o Unescape(SubSeq(b, 5, Len(b)))
              ELSE <<b[2]>> \o Unescape(SubSeq(b, 3, Len(b)))
         ELSE <<Head(b)>> \o Unescape(Tail(b))

(* The value of a quoted string literal. *)
PyEval(lit) == Unescape(SubSeq(lit, 2, Len(lit) - 1))

(* open(..., "w", encoding="utf-8"): code points to bytes, and back when   *)
(* the interpreter reads a source file declared utf-8 (code points below   *)
(* 65536 are all that occur).                                              *)
RECURSIVE Utf8Encode(_)
Utf8Encode(s) ==
    IF s = <<>> THEN <<>>
    ELSE (IF Head(s) < 128 THEN <<Head(s)>>
          ELSE <<192 + (Head(s) \div 64), 128 + (Head(s) % 64)>>) \o Utf8Encode(Tail(s))

RECURSIVE Utf8Decode(_)
Utf8Decode(b) ==
    IF b = <<>> THEN <<>>
    ELSE IF Head(b) >= 224 /\ Len(b) >= 3
         THEN <<(Head(b) - 224) * 4096 + (b[2] - 128) * 64 + (b[3] - 128)>>
                 \o Utf8Decode(SubSeq(b, 4, Len(b)))
    ELSE IF Head(b) >= 192 /\ Len(b) >= 2
         THEN <<(Head(b) - 192) * 64 + (b[2] - 128)>> \o Utf8Decode(SubSeq(b, 3, Len(b)))
         ELSE <<Head(b)>> \o Utf8Decode(Tail(b))

(* The string literals '...' of a text, in order (none of them holds a     *)
(* quote or a backslash).                                                  *)
RECURSIVE Literals(_)
Literals(t) ==
    IF t = <<>> THEN <<>>
    ELSE IF Head(t) = 39
         THEN LET rest == Tail(t)
                  closing == {k \in 1..Len(rest) : rest[k] = 39}
              IN IF closing = {} THEN <<>>
                 ELSE LET n == CHOOSE k \in closing : \A j \in closing : k <= j
                      IN <<SubSeq(rest, 1, n - 1)>> \o Literals(SubSeq(rest, n + 1, Len(rest)))
    ELSE Literals(Tail(t))

(* What the interpreter makes of line 23 when it starts a script holding   *)
(* the bytes script (read as UTF-8): its four literals.  A text without    *)
(* them has no line 23 and replaces nothing.                               *)
Line23Of(script) ==
    LET lits == Literals(Utf8Decode(script))
    IN IF Len(lits) >= 4 THEN SubSeq(lits, 1, 4) ELSE <<<<>>, <<>>, <<>>, <<>>>>

(* The part of a generated agent that varies: the literal after           *)
(* "code = " in longa1.py, after "original_longa_code_to_write = " in      *)
(* longamax.py; and what executing that assignment yields.                 *)
longa1_code_empty(captured) == Utf8Encode(PyRepr(<<>>))

longa1_code(captured) == Utf8Encode(PyRepr(captured))

longamax_code_content(captured) == Utf8Encode(PyRepr(captured))

EmbeddedCode(filebytes) == PyEval(Utf8Decode(filebytes))

(***************************************************************************)
(* The filesystem and the environment's answers                            *)
(***************************************************************************)
(* os.remove(f): removes an existing file unless the system refuses        *)
(* (OSError); raises FileNotFoundError, an OSError, when f is absent.      *)
MayFault == faults < MaxFaults

Charge(o) == faults' = IF o \in {"error_denied", "oserror", "no_python"} THEN faults + 1 ELSE faults

RemoveOutcomes(f) ==
    IF exists[f] THEN {"removed"} \cup (IF MayFault THEN {"error_denied"} ELSE {})
    ELSE {"error_absent"}

(* open(f, "w") and write: succeeds or raises OSError. *)
WriteOutcomes == {"ok"} \cup (IF MayFault THEN {"oserror"} ELSE {})

(* subprocess.run / subprocess.Popen of ["python", ...]: the runtime       *)
(* starts or the launch raises (python not in PATH).                       *)
SpawnOutcomes == {"launched"} \cup (IF MayFault THEN {"no_python"} ELSE {})

Removed(f) ==
    /\ exists' = [exists EXCEPT ![f] = FALSE]
    /\ content' = [content EXCEPT ![f] = <<>>]

Written(f, c) ==
    /\ exists' = [exists EXCEPT ![f] = TRUE]
    /\ content' = [content EXCEPT ![f] = c]

ApplyRemove(f, o) ==
    /\ IF o = "removed" THEN Removed(f) ELSE UNCHANGED <<exists, content>>
    /\ Charge(o)

ApplyWrite(f, c, o) ==
    /\ IF o = "ok" THEN Written(f, c) ELSE UNCHANGED <<exists, content>>
    /\ Charge(o)

(***************************************************************************)
(* longacheck.py, the trigger watcher (check_longastop_files)              *)
(***************************************************************************)
(* target_files, in the order the for loop visits them. *)
target_files == <<"longastop1.py", "longastop2.py", "longastop3.py", "longastop4.py">>

TriggerNames == {target_files[k] : k \in 1..Len(target_files)}

(* The watcher as check_longastop_files starts it, with the trigger files  *)
(* in present already in the directory: nothing processed yet, the loop at *)
(* its first file.  status is the last message appended for each file,     *)
(* acts the number of times its operation ran; appear counts the times     *)
(* the file came into existence and toggles the changes made to the        *)
(* directory from outside the watcher; pc is "loop" while the watcher is   *)
(* inside its while loop.                                                  *)
TrigStart(present) ==
    [ pc |-> "loop", present |-> present, processed |-> {}, k |-> 1,
      status |-> [f \in TriggerNames |-> "none"],
      acts |-> [f \in TriggerNames |-> 0],
      appear |-> [f \in TriggerNames |-> IF f \in present THEN 1 ELSE 0],
      toggles |-> 0 ]

TriggerPoll_NoMark ==
    LET f == target_files[trig.k]
        k2 == IF trig.k = Len(target_files) THEN 1 ELSE trig.k + 1
    IN /\ trig.pc = "loop"
       /\ IF f \in trig.present
          THEN trig' = [trig EXCEPT !.k = k2, !.status[f] = "found", !.acts[f] = @ + 1]
          ELSE trig' = [trig EXCEPT !.k = k2, !.status[f] = "missing",
                                    !.processed = @ \ {f}]
       /\ UNCHANGED <<exists, content, run, watcher, faults, selector>>

(* One pass of the body of "for filename, operation_func in                *)
(* target_files.items()"; after the last file the watcher sleeps and the   *)
(* while loop starts the for loop again.                                   *)
TriggerPoll ==
    LET f == target_files[trig.k]
        k2 == IF trig.k = Len(target_files) THEN 1 ELSE trig.k + 1
    IN /\ trig.pc = "loop"
       /\ IF f \in trig.present
          THEN IF f \notin trig.processed
               THEN trig' = [trig EXCEPT !.k = k2, !.status[f] = "found",
                                         !.acts[f] = @ + 1,
                                         !.processed = @ \cup {f}]
               ELSE trig' = [trig EXCEPT !.k = k2, !.status[f] = "still"]
          ELSE trig' = [trig EXCEPT !.k = k2, !.status[f] = "missing",
                                    !.processed = @ \ {f}]
       /\ UNCHANGED <<exists, content, run, watcher, faults, selector>>

(* A trigger file comes into existence: the selector's open(file_name,     *)
(* 'w') on a name that was absent.                                         *)
TriggerAppear(f) ==
    /\ f \notin trig.present
    /\ trig.toggles < MaxToggles
    /\ trig' = [trig EXCEPT !.present = @ \cup {f}, !.appear[f] = @ + 1,
                            !.toggles = @ + 1]
    /\ UNCHANGED <<exists, content, run, watcher, faults, selector>>

(* A trigger file is taken away (nothing in the repository removes one;    *)
(* the watcher provides for it at "processed but now is missing").         *)
TriggerDisappear(f) ==
    /\ f \in trig.present
    /\ trig.toggles < MaxToggles
    /\ trig' = [trig EXCEPT !.present = @ \ {f}, !.toggles = @ + 1]
    /\ UNCHANGED <<exists, content, run, watcher, faults, selector>>

(* except KeyboardInterrupt: the interrupt arrives between two operations  *)
(* of the loop or in its sleep; the watcher prints and returns.            *)
TriggerInterrupt ==
    /\ trig.pc = "loop"
    /\ trig' = [trig EXCEPT !.pc = "stopped"]
    /\ UNCHANGED <<exists, content, run, watcher, faults, selector>>

(* The interrupt arrives inside operation_func(): the operation has begun  *)
(* (the "Found" message is appended, rows may already be in longadata.csv) *)
(* and is abandoned; the line that marks the file processed is not         *)
(* reached.                                                                *)
TriggerInterruptInWork ==
    LET f == target_files[trig.k]
    IN /\ trig.pc = "loop"
       /\ f \in trig.present
       /\ f \notin trig.processed
       /\ trig' = [trig EXCEPT !.pc = "stopped", !.status[f] = "found", !.acts[f] = @ + 1]
       /\ UNCHANGED <<exists, content, run, watcher, faults, selector>>

(***************************************************************************)
(* loadmax.py, the selector                                                *)
(***************************************************************************)
Inputs == UNION {[1..n -> InputChars] : n \in 0..MaxInputLen}

options == <<1, 2, 3, 4>>

IsDigit(c) == c >= 48 /\ c <= 57

RECURSIVE Strip(_)
Strip(s) ==
    IF s = <<>> THEN <<>>
    ELSE IF Head(s) = 32 THEN Strip(Tail(s))
    ELSE IF s[Len(s)] = 32 THEN Strip(SubSeq(s, 1, Len(s) - 1))
    ELSE s

RECURSIVE DigitsValue(_)
DigitsValue(d) == IF d = <<>> THEN 0 ELSE 10 * DigitsValue(SubSeq(d, 1, Len(d) - 1)) + (d[Len(d)] - 48)

(* int(text): surrounding whitespace dropped, one optional sign, then one  *)
(* or more digits; anything else raises ValueError.                        *)
ParseInt(text) ==
    LET t == Strip(text)
        signed == t # <<>> /\ Head(t) \in {43, 45}
        d == IF signed THEN Tail(t) ELSE t
    IN IF d # <<>> /\ \A k \in 1..Len(d) : IsDigit(d[k])
       THEN [ok |-> TRUE, val |-> IF signed /\ Head(t) = 45 THEN 0 - DigitsValue(d) ELSE DigitsValue(d)]
       ELSE [ok |-> FALSE, val |-> 0]

select_number_unchecked(text) ==
    LET p == ParseInt(text)
    IN IF p.ok THEN [returned |-> TRUE, choice |-> p.val, said |-> "none"]
       ELSE [returned |-> FALSE, choice |-> 0, said |-> "valueerror"]

(* One pass of the while loop of select_number on the text entered. *)
select_number(text) ==
    LET p == ParseInt(text)
    IN IF p.ok
       THEN IF \E k \in 1..Len(options) : options[k] = p.val
            THEN [returned |-> TRUE, choice |-> p.val, said |-> "none"]
            ELSE [returned |-> FALSE, choice |-> 0, said |-> "invalid_selection"]
       ELSE [returned |-> FALSE, choice |-> 0, said |-> "valueerror"]

(* file_name = f"longastop{selected_num}.py" *)
file_name(selected_num) == "longastop" \o ToString(selected_num) \o ".py"

(* The selector before it is started, and as python loadmax.py starts it:  *)
(* entered is the last text typed, rejected the number of entries turned   *)
(* down, created the files it has written.                                 *)
SelectorOff ==
    [ pc |-> "off", entered |-> <<>>, rejected |-> 0, said |-> "none", choice |-> 0,
      created |-> <<>>, log |-> "none" ]

SelectorStart == [SelectorOff EXCEPT !.pc = "prompt"]

(* choice = int(input(...)) and the test that follows. *)
SelectPrompt ==
    /\ selector.pc = "prompt"
    /\ \E text \in Inputs :
         LET res == select_number(text)
         IN IF res.returned
            THEN selector' = [selector EXCEPT !.pc = "create", !.entered = text,
                                              !.choice = res.choice, !.said = res.said]
            ELSE /\ selector.rejected < MaxRejects
                 /\ selector' = [selector EXCEPT !.entered = text, !.said = res.said,
                                                  !.rejected = @ + 1]
    /\ UNCHANGED <<exists, content, run, watcher, faults, trig>>

(* input() at the end of its input raises EOFError, which select_number    *)
(* does not catch: the selector ends there.                                *)
SelectEndOfInput ==
    /\ selector.pc = "prompt"
    /\ selector' = [selector EXCEPT !.pc = "crashed", !.log = "eoferror"]
    /\ UNCHANGED <<exists, content, run, watcher, faults, trig>>

(* with open(file_name, 'w') ...: under except IOError. *)
SelectCreate ==
    LET f == file_name(selector.choice)
    IN /\ selector.pc = "create"
       /\ \E o \in WriteOutcomes :
            /\ Charge(o)
            /\ IF o = "ok"
               THEN /\ trig' = [trig EXCEPT !.present = @ \cup {f},
                                            !.appear[f] = IF f \in trig.present THEN @ ELSE @ + 1]
                    /\ selector' = [selector EXCEPT !.pc = "done", !.log = "created",
                                                     !.created = Append(@, f)]
               ELSE /\ trig' = trig
                    /\ selector' = [selector EXCEPT !.pc = "done", !.log = "ioerror"]
       /\ UNCHANGED <<exists, content, run, watcher>>

(***************************************************************************)
(* One orchestrator process                                                *)
(***************************************************************************)
files_to_clean_selector == <<"longa1.py", "longa2.py", "longamax.py", "loadmax.py">>

files_to_clean_short == <<"longa1.py", "longa2.py", "longamax.py">>

files_to_clean == <<"longa1.py", "longa2.py", "longamax.py", "loadedmax.py">>

NoDeletes == [a \in Agents |-> <<>>]

NewRun(pc0) ==
    [ pc |-> pc0, i |-> 1, line23 |-> OriginalLine23, raw1 |-> <<>>, cap1 |-> <<>>, modcode |-> <<>>, imported |-> FALSE,
      cap2 |-> <<>>, apc |-> "none", acode |-> <<>>, ticks |-> 0, bpc |-> "none",
      cleanupLog |-> <<>>, delLog |-> NoDeletes, started |-> {}, finished |-> {},
      loadLog |-> "none", runALog |-> "none", runBLog |-> "none", selLog |-> "none",
      popenLog |-> "none", launches |-> 0, rewroteA |-> 0,
      successDone |-> FALSE, failureDone |-> FALSE, crashedAt |-> "none" ]

Init ==
    /\ \E left \in {{}, {"longa1.py", "longa2.py", "longamax.py", "loadedmax.py"}} :
       \E sel \in BOOLEAN :
          exists = [f \in Files |->
                      IF f = "longa.py" THEN TRUE
                      ELSE IF f = "loadmax.py" THEN sel
                      ELSE f \in left]
    /\ \E src \in InitialSources :
          content = [f \in Files |-> IF f = "longa.py" THEN src ELSE <<>>]
    /\ run = [r \in Runs |-> IF r = 1 THEN [NewRun("clean_check") EXCEPT !.started = {"orchestrator"}]
                             ELSE NewRun("idle")]
    /\ watcher = [pc |-> "check", log |-> "none"]
    /\ faults = 0
    /\ trig = TrigStart({})
    /\ selector = SelectorOff

Set(r, rec) == run' = [run EXCEPT ![r] = rec]

LogDelete(me, agent, o) == [me.delLog EXCEPT ![agent] = Append(@, o)]

(* python longa.py: the interpreter opens the script; a missing script     *)
(* ends the process before any line of it runs.                            *)
Boot(r) ==
    /\ run[r].pc = "boot"
    /\ IF exists["longa.py"]
       THEN Set(r, [run[r] EXCEPT !.pc = "clean_check", !.started = @ \cup {"orchestrator"},
                                  !.line23 = Line23Of(content["longa.py"])])
       ELSE Set(r, [run[r] EXCEPT !.pc = "nofile"])
    /\ UNCHANGED <<exists, content, watcher, faults, trig, selector>>

AfterCleanupOf_Raise(i, o) ==
    IF o \in {"error_absent", "error_denied"} THEN [pc |-> "crashed", i |-> i]
    ELSE IF i = Len(files_to_clean) THEN [pc |-> "capture1", i |-> i]
    ELSE [pc |-> "clean_check", i |-> i + 1]

AfterCleanupOf_Break(i, o) ==
    IF o = "notfound" \/ i = Len(files_to_clean) THEN [pc |-> "capture1", i |-> i]
    ELSE [pc |-> "clean_check", i |-> i + 1]

(* clean_previous_run_artifacts: where the loop goes after file number i   *)
(* resolved with outcome o.                                                *)
AfterCleanupOf(i, o) ==
    IF i = Len(files_to_clean) THEN [pc |-> "capture1", i |-> i]
    ELSE [pc |-> "clean_check", i |-> i + 1]

CleanCheck(r) ==
    LET me == run[r]
        f == files_to_clean[me.i]
        nxt == AfterCleanupOf(me.i, "notfound")
    IN /\ me.pc = "clean_check"
       /\ IF exists[f]
          THEN Set(r, [me EXCEPT !.pc = "clean_rm"])
          ELSE Set(r, [me EXCEPT !.pc = nxt.pc, !.i = nxt.i,
                                 !.cleanupLog = Append(@, <<f, "notfound">>)])
       /\ UNCHANGED <<exists, content, watcher, faults, trig, selector>>

CleanRemove(r) ==
    LET me == run[r]
        f == files_to_clean[me.i]
    IN /\ me.pc = "clean_rm"
       /\ \E o \in RemoveOutcomes(f) :
            /\ ApplyRemove(f, o)
            /\ LET nxt == AfterCleanupOf(me.i, o)
               IN Set(r, [me EXCEPT !.pc = nxt.pc, !.i = nxt.i,
                                    !.cleanupLog = Append(@, <<f, o>>)])
       /\ UNCHANGED <<watcher, trig, selector>>

Capture1_Guarded(r) ==
    LET me == run[r]
    IN /\ me.pc = "capture1"
       /\ IF exists["longa.py"]
          THEN Set(r, [me EXCEPT !.pc = "write1", !.raw1 = content["longa.py"],
                                 !.cap1 = get_clean_ascii_code(me.line23, content["longa.py"])])
          ELSE Set(r, [me EXCEPT !.pc = "write1", !.crashedAt = "capture1"])
       /\ UNCHANGED <<exists, content, watcher, faults, trig, selector>>

(* current_longa_code_for_longa1 = get_clean_ascii_code(__file__) *)
Capture1(r) ==
    LET me == run[r]
    IN /\ me.pc = "capture1"
       /\ IF exists["longa.py"]
          THEN Set(r, [me EXCEPT !.pc = "write1", !.raw1 = content["longa.py"],
                                 !.cap1 = get_clean_ascii_code(me.line23, content["longa.py"])])
          ELSE Set(r, [me EXCEPT !.pc = "crashed", !.crashedAt = "capture1"])
       /\ UNCHANGED <<exists, content, watcher, faults, trig, selector>>

(* with open("longa1.py", "w") ...: f.write(longa1_code) *)
WriteSuccessor(r) ==
    LET me == run[r]
    IN /\ me.pc = "write1"
       /\ \E o \in WriteOutcomes :
            /\ ApplyWrite("longa1.py", longa1_code(me.cap1), o)
            /\ IF o = "ok"
               THEN Set(r, [me EXCEPT !.pc = "load_check"])
               ELSE Set(r, [me EXCEPT !.pc = "crashed", !.crashedAt = "write1"])
       /\ UNCHANGED <<watcher, trig, selector>>

BranchTarget_MarkAlways(imported) == "mark_write"

(* The branch on longa1_imported. *)
BranchTarget(imported) == IF imported THEN "mark_write" ELSE "capture2"

LoadRaised_Uncaught(me, why) ==
    [me EXCEPT !.pc = "crashed", !.crashedAt = "load", !.loadLog = why]

(* What the guard around the load does with an exception raised in it. *)
LoadRaised(me, why) ==
    [me EXCEPT !.pc = BranchTarget(FALSE), !.imported = FALSE, !.loadLog = why]

LoadCheck(r) ==
    LET me == run[r]
    IN /\ me.pc = "load_check"
       /\ IF exists["longa1.py"]
          THEN Set(r, [me EXCEPT !.pc = "load_read"])
          ELSE Set(r, [me EXCEPT !.pc = BranchTarget(FALSE), !.loadLog = "notfound"])
       /\ UNCHANGED <<exists, content, watcher, faults, trig, selector>>

(* spec.loader.exec_module(longa1): the loader reads longa1.py ... *)
LoadRead(r) ==
    LET me == run[r]
    IN /\ me.pc = "load_read"
       /\ IF exists["longa1.py"]
          THEN Set(r, [me EXCEPT !.pc = "s_write", !.modcode = EmbeddedCode(content["longa1.py"]),
                                 !.started = @ \cup {"successor"}])
          ELSE Set(r, LoadRaised(me, "raised_missing"))
       /\ UNCHANGED <<exists, content, watcher, faults, trig, selector>>

(* ... longa1.py writes its embedded code over longa.py ... *)
SuccessorWrite(r) ==
    LET me == run[r]
    IN /\ me.pc = "s_write"
       /\ \E o \in WriteOutcomes :
            /\ ApplyWrite("longa.py", Utf8Encode(me.modcode), o)
            /\ IF o = "ok"
               THEN Set(r, [me EXCEPT !.pc = "s_del"])
               ELSE Set(r, LoadRaised(me, "raised_io"))
       /\ UNCHANGED <<watcher, trig, selector>>

(* ... and removes itself; the load has then succeeded. *)
SuccessorSelfDelete(r) ==
    LET me == run[r]
    IN /\ me.pc = "s_del"
       /\ \E o \in RemoveOutcomes("longa1.py") :
            /\ ApplyRemove("longa1.py", o)
            /\ Set(r, [me EXCEPT !.pc = BranchTarget(TRUE), !.imported = TRUE,
                                 !.loadLog = "imported",
                                 !.delLog = LogDelete(me, "successor", o),
                                 !.finished = @ \cup {"successor"}])
       /\ UNCHANGED <<watcher, trig, selector>>

current_longa_path_wrong == "longa1.py"

(* os.path.abspath(__file__) in the orchestrator. *)
current_longa_path == "longa.py"

MarkWrite_Skipped(r) ==
    /\ run[r].pc = "mark_write"
    /\ Set(r, [run[r] EXCEPT !.pc = "self_del_s"])
    /\ UNCHANGED <<exists, content, watcher, faults, trig, selector>>

(* Success path: write longa2.py ... *)
MarkWrite(r) ==
    LET me == run[r]
    IN /\ me.pc = "mark_write"
       /\ \E o \in WriteOutcomes :
            /\ ApplyWrite("longa2.py", <<>>, o)
            /\ IF o = "ok"
               THEN Set(r, [me EXCEPT !.pc = "self_del_s"])
               ELSE Set(r, [me EXCEPT !.pc = "crashed", !.crashedAt = "mark_write"])
       /\ UNCHANGED <<watcher, trig, selector>>

(* ... then os.remove(longa.py), guarded. *)
SelfDeleteSuccess(r) ==
    LET me == run[r]
    IN /\ me.pc = "self_del_s"
       /\ \E o \in RemoveOutcomes(current_longa_path) :
            /\ ApplyRemove(current_longa_path, o)
            /\ Set(r, [me EXCEPT !.pc = "done", !.successDone = TRUE,
                                 !.delLog = LogDelete(me, "orchestrator", o),
                                 !.finished = @ \cup {"orchestrator"}])
       /\ UNCHANGED <<watcher, trig, selector>>

(* Failure path: current_longa_code_for_longamax = get_clean_ascii_code(__file__) *)
Capture2(r) ==
    LET me == run[r]
    IN /\ me.pc = "capture2"
       /\ IF exists["longa.py"]
          THEN Set(r, [me EXCEPT !.pc = "writeA",
                                 !.cap2 = get_clean_ascii_code(me.line23, content["longa.py"])])
          ELSE Set(r, [me EXCEPT !.pc = "crashed", !.crashedAt = "capture2"])
       /\ UNCHANGED <<exists, content, watcher, faults, trig, selector>>

(* with open("longamax.py", "w") ...: f.write(longamax_code_content) *)
WriteRecoveryA(r) ==
    LET me == run[r]
    IN /\ me.pc = "writeA"
       /\ \E o \in WriteOutcomes :
            /\ ApplyWrite("longamax.py", longamax_code_content(me.cap2), o)
            /\ IF o = "ok"
               THEN Set(r, [me EXCEPT !.pc = "runA"])
               ELSE Set(r, [me EXCEPT !.pc = "crashed", !.crashedAt = "writeA"])
       /\ UNCHANGED <<watcher, trig, selector>>

(* States in which a child process has ended: exit0 ran to its end, exit1  *)
(* died of an uncaught exception, exit2 could not open its script.         *)
ExitStates == {"exit0", "exit1", "exit2"}

(* subprocess.run returns only once the child has exited. *)
Supervised(childpc) == childpc \in ExitStates

RunStatus_Unchecked(childpc) == "ok"

(* check=True: a child that did not exit with status 0 raises              *)
(* CalledProcessError in the caller.                                       *)
RunStatus(childpc) == IF childpc = "exit0" THEN "ok" ELSE "calledprocesserror"

(* subprocess.run(["python", "longamax.py"], check=True): the launch *)
RunRecoveryA(r) ==
    LET me == run[r]
    IN /\ me.pc = "runA"
       /\ \E o \in SpawnOutcomes :
            /\ Charge(o)
            /\ IF o = "launched"
               THEN Set(r, [me EXCEPT !.pc = "waitA", !.apc = "start"])
               ELSE Set(r, [me EXCEPT !.pc = "writeB", !.apc = "nolaunch", !.runALog = "filenotfound"])
       /\ UNCHANGED <<exists, content, watcher, trig, selector>>

(* ... and the return, with the child's status logged. *)
WaitRecoveryA(r) ==
    LET me == run[r]
    IN /\ me.pc = "waitA"
       /\ Supervised(me.apc)
       /\ Set(r, [me EXCEPT !.pc = "writeB", !.runALog = RunStatus(me.apc)])
       /\ UNCHANGED <<exists, content, watcher, faults, trig, selector>>

(***************************************************************************)
(* longamax.py (Recovery-A), a child process of run r                      *)
(***************************************************************************)
Countdown == 3

AStart(r) ==
    LET me == run[r]
    IN /\ me.apc = "start"
       /\ IF exists["longamax.py"]
          THEN Set(r, [me EXCEPT !.apc = "tick", !.acode = EmbeddedCode(content["longamax.py"]),
                                 !.started = @ \cup {"recoveryA"}])
          ELSE Set(r, [me EXCEPT !.apc = "exit2"])
       /\ UNCHANGED <<exists, content, watcher, faults, trig, selector>>

(* for i in range(3, 0, -1): print; time.sleep(1) *)
ATick(r) ==
    LET me == run[r]
    IN /\ me.apc = "tick"
       /\ Set(r, [me EXCEPT !.ticks = @ + 1,
                            !.apc = IF me.ticks + 1 = Countdown THEN "write" ELSE "tick"])
       /\ UNCHANGED <<exists, content, watcher, faults, trig, selector>>

AWrite_Skipped(r) ==
    /\ run[r].apc = "write"
    /\ Set(r, [run[r] EXCEPT !.apc = "del"])
    /\ UNCHANGED <<exists, content, watcher, faults, trig, selector>>

(* with open("longa.py", "w") ...: unguarded *)
AWrite(r) ==
    LET me == run[r]
    IN /\ me.apc = "write"
       /\ \E o \in WriteOutcomes :
            /\ ApplyWrite("longa.py", Utf8Encode(me.acode), o)
            /\ IF o = "ok"
               THEN Set(r, [me EXCEPT !.apc = "del", !.rewroteA = @ + 1])
               ELSE Set(r, [me EXCEPT !.apc = "exit1"])
       /\ UNCHANGED <<watcher, trig, selector>>

(* Where longamax.py goes after its guarded os.remove ended with o. *)
AfterASelfDelete(o) == "spawn"

ASelfDelete(r) ==
    LET me == run[r]
    IN /\ me.apc = "del"
       /\ \E o \in RemoveOutcomes("longamax.py") :
            /\ ApplyRemove("longamax.py", o)
            /\ Set(r, [me EXCEPT !.apc = AfterASelfDelete(o),
                                 !.delLog = LogDelete(me, "recoveryA", o)])
       /\ UNCHANGED <<watcher, trig, selector>>

(* subprocess.Popen(["python", "longa.py"], ...): not waited for.  The     *)
(* launched process is followed while a run number is free.                *)
ASpawn(r) ==
    LET me == run[r]
    IN /\ me.apc = "spawn"
       /\ \E o \in SpawnOutcomes :
            /\ Charge(o)
            /\ LET mine == [me EXCEPT !.apc = "exit0", !.finished = @ \cup {"recoveryA"},
                                      !.popenLog = o,
                                      !.launches = IF o = "launched" THEN @ + 1 ELSE @]
               IN IF o = "launched" /\ r < MaxRuns
                  THEN run' = [run EXCEPT ![r] = mine, ![r + 1] = NewRun("boot")]
                  ELSE Set(r, mine)
       /\ UNCHANGED <<exists, content, watcher, trig, selector>>

(***************************************************************************)
(* loadedmax.py (Recovery-B)                                               *)
(***************************************************************************)
(* The write and the run share one try; any exception in it is logged. *)
WriteRecoveryB(r) ==
    LET me == run[r]
    IN /\ me.pc = "writeB"
       /\ \E o \in WriteOutcomes :
            /\ ApplyWrite("loadedmax.py", <<>>, o)
            /\ IF o = "ok"
               THEN Set(r, [me EXCEPT !.pc = "runB"])
               ELSE Set(r, [me EXCEPT !.pc = "self_del_f", !.runBLog = "exception"])
       /\ UNCHANGED <<watcher, trig, selector>>

RunRecoveryB(r) ==
    LET me == run[r]
    IN /\ me.pc = "runB"
       /\ \E o \in SpawnOutcomes :
            /\ Charge(o)
            /\ IF o = "launched"
               THEN Set(r, [me EXCEPT !.pc = "waitB", !.bpc = "start"])
               ELSE Set(r, [me EXCEPT !.pc = "self_del_f", !.bpc = "nolaunch", !.runBLog = "filenotfound"])
       /\ UNCHANGED <<exists, content, watcher, trig, selector>>

WaitRecoveryB(r) ==
    LET me == run[r]
    IN /\ me.pc = "waitB"
       /\ Supervised(me.bpc)
       /\ Set(r, [me EXCEPT !.pc = "self_del_f", !.runBLog = RunStatus(me.bpc)])
       /\ UNCHANGED <<exists, content, watcher, faults, trig, selector>>

BStart(r) ==
    LET me == run[r]
    IN /\ me.bpc = "start"
       /\ IF exists["loadedmax.py"]
          THEN Set(r, [me EXCEPT !.bpc = "check", !.started = @ \cup {"recoveryB"}])
          ELSE Set(r, [me EXCEPT !.bpc = "exit2"])
       /\ UNCHANGED <<exists, content, watcher, faults, trig, selector>>

(* if os.path.exists("loadmax.py") *)
BCheck(r) ==
    LET me == run[r]
    IN /\ me.bpc = "check"
       /\ IF exists["loadmax.py"]
          THEN Set(r, [me EXCEPT !.bpc = "sel"])
          ELSE Set(r, [me EXCEPT !.bpc = "del", !.selLog = "notfound"])
       /\ UNCHANGED <<exists, content, watcher, faults, trig, selector>>

BSelector_Uncaught(r) ==
    /\ run[r].bpc = "sel"
    /\ \E o \in {"ok", "error"} :
         Set(r, [run[r] EXCEPT !.bpc = IF o = "ok" THEN "del" ELSE "exit1", !.selLog = o])
    /\ UNCHANGED <<exists, content, watcher, faults, trig, selector>>

(* subprocess.run(["python", "loadmax.py"], check=True) under except       *)
(* Exception: the selector ends well or not, and either is only logged.    *)
BSelector(r) ==
    LET me == run[r]
    IN /\ me.bpc = "sel"
       /\ \E o \in {"ok", "error"} : Set(r, [me EXCEPT !.bpc = "del", !.selLog = o])
       /\ UNCHANGED <<exists, content, watcher, faults, trig, selector>>

BSelfDelete(r) ==
    LET me == run[r]
    IN /\ me.bpc = "del"
       /\ \E o \in RemoveOutcomes("loadedmax.py") :
            /\ ApplyRemove("loadedmax.py", o)
            /\ Set(r, [me EXCEPT !.bpc = "exit0", !.delLog = LogDelete(me, "recoveryB", o),
                                 !.finished = @ \cup {"recoveryB"}])
       /\ UNCHANGED <<watcher, trig, selector>>

(* The orchestrator's last step on the failure path. *)
SelfDeleteFailure(r) ==
    LET me == run[r]
    IN /\ me.pc = "self_del_f"
       /\ \E o \in RemoveOutcomes(current_longa_path) :
            /\ ApplyRemove(current_longa_path, o)
            /\ Set(r, [me EXCEPT !.pc = "done", !.failureDone = TRUE,
                                 !.delLog = LogDelete(me, "orchestrator", o),
                                 !.finished = @ \cup {"orchestrator"}])
       /\ UNCHANGED <<watcher, trig, selector>>

(***************************************************************************)
(* delete1.py, the watcher of longa1.py                                    *)
(***************************************************************************)
WatcherCheck ==
    /\ watcher.pc = "check"
    /\ IF exists["longa1.py"]
       THEN watcher' = [watcher EXCEPT !.pc = "remove"]
       ELSE watcher' = [watcher EXCEPT !.log = "notfound"]
    /\ UNCHANGED <<exists, content, run, faults, trig, selector>>

WatcherRemove_Uncaught ==
    /\ watcher.pc = "remove"
    /\ \E o \in RemoveOutcomes("longa1.py") :
         /\ ApplyRemove("longa1.py", o)
         /\ watcher' = [pc |-> IF o = "removed" THEN "check" ELSE "stopped", log |-> o]
    /\ UNCHANGED <<run, trig, selector>>

WatcherRemove ==
    /\ watcher.pc = "remove"
    /\ \E o \in RemoveOutcomes("longa1.py") :
         /\ ApplyRemove("longa1.py", o)
         /\ watcher' = [pc |-> "check", log |-> o]
    /\ UNCHANGED <<run, trig, selector>>

(* except KeyboardInterrupt: the interrupt arrives at any point of the     *)
(* loop (the except Exception around os.remove does not catch it); the     *)
(* watcher prints and ends.                                                *)
WatcherInterrupt ==
    /\ watcher.pc \in {"check", "remove"}
    /\ watcher' = [watcher EXCEPT !.pc = "stopped"]
    /\ UNCHANGED <<exists, content, run, faults, trig, selector>>

Next ==
    \/ \E r \in Runs :
        \/ Boot(r)
        \/ CleanCheck(r)
        \/ CleanRemove(r)
        \/ Capture1(r)
        \/ WriteSuccessor(r)
        \/ LoadCheck(r)
        \/ LoadRead(r)
        \/ SuccessorWrite(r)
        \/ SuccessorSelfDelete(r)
        \/ MarkWrite(r)
        \/ SelfDeleteSuccess(r)
        \/ Capture2(r)
        \/ WriteRecoveryA(r)
        \/ RunRecoveryA(r)
        \/ WaitRecoveryA(r)
        \/ AStart(r)
        \/ ATick(r)
        \/ AWrite(r)
        \/ ASelfDelete(r)
        \/ ASpawn(r)
        \/ WriteRecoveryB(r)
        \/ RunRecoveryB(r)
        \/ WaitRecoveryB(r)
        \/ BStart(r)
        \/ BCheck(r)
        \/ BSelector(r)
        \/ BSelfDelete(r)
        \/ SelfDeleteFailure(r)
    \/ WatcherCheck
    \/ WatcherRemove

Spec == Init /\ [][Next]_vars

(***************************************************************************)
(* One orchestrator run followed from any short content of longa.py, in a  *)
(* directory that holds the four leftovers and the selector, with no other *)
(* process beside it                                                       *)
(***************************************************************************)
Sources == UNION {[1..n -> SourceBytes] : n \in 0..MaxSourceLen}

CaptureInit ==
    /\ exists = [f \in Files |-> TRUE]
    /\ \E src \in Sources :
          content = [f \in Files |-> IF f = "longa.py" THEN src ELSE <<>>]
    /\ run = [r \in Runs |-> IF r = 1 THEN [NewRun("clean_check") EXCEPT !.started = {"orchestrator"}]
                             ELSE NewRun("idle")]
    /\ watcher = [pc |-> "check", log |-> "none"]
    /\ faults = 0
    /\ trig = TrigStart({})
    /\ selector = SelectorOff

CaptureNext ==
    \/ CleanCheck(1)
    \/ CleanRemove(1)
    \/ Capture1(1)
    \/ WriteSuccessor(1)
    \/ LoadCheck(1)
    \/ LoadRead(1)
    \/ SuccessorWrite(1)
    \/ SuccessorSelfDelete(1)
    \/ MarkWrite(1)
    \/ SelfDeleteSuccess(1)
    \/ Capture2(1)
    \/ WriteRecoveryA(1)
    \/ RunRecoveryA(1)
    \/ WaitRecoveryA(1)
    \/ AStart(1)
    \/ ATick(1)
    \/ AWrite(1)
    \/ ASelfDelete(1)
    \/ ASpawn(1)
    \/ WriteRecoveryB(1)
    \/ RunRecoveryB(1)
    \/ WaitRecoveryB(1)
    \/ BStart(1)
    \/ BCheck(1)
    \/ BSelector(1)
    \/ BSelfDelete(1)
    \/ SelfDeleteFailure(1)

CaptureSpec == CaptureInit /\ [][CaptureNext]_vars

(***************************************************************************)
(* The trigger watcher on its own, with trigger files coming and going     *)
(***************************************************************************)
TriggerInit ==
    /\ exists = [f \in Files |-> f = "longa.py"]
    /\ \E src \in InitialSources :
          content = [f \in Files |-> IF f = "longa.py" THEN src ELSE <<>>]
    /\ run = [r \in Runs |-> NewRun("idle")]
    /\ watcher = [pc |-> "check", log |-> "none"]
    /\ faults = 0
    /\ \E present \in SUBSET TriggerNames : trig = TrigStart(present)
    /\ selector = SelectorOff

TriggerNext ==
    \/ TriggerPoll
    \/ \E f \in TriggerNames : TriggerAppear(f)
    \/ \E f \in TriggerNames : TriggerDisappear(f)

TriggerSpec == TriggerInit /\ [][TriggerNext]_vars

(***************************************************************************)
(* One run of the selector, in a directory holding any of the trigger      *)
(* files already                                                           *)
(***************************************************************************)
SelectorInit ==
    /\ exists = [f \in Files |-> f \in {"longa.py", "loadmax.py"}]
    /\ \E src \in InitialSources :
          content = [f \in Files |-> IF f = "longa.py" THEN src ELSE <<>>]
    /\ run = [r \in Runs |-> NewRun("idle")]
    /\ watcher = [pc |-> "check", log |-> "none"]
    /\ faults = 0
    /\ \E present \in SUBSET TriggerNames : trig = TrigStart(present)
    /\ selector = SelectorStart

SelectorNext ==
    \/ SelectPrompt
    \/ SelectEndOfInput
    \/ SelectCreate

SelectorSpec == SelectorInit /\ [][SelectorNext]_vars

(***************************************************************************)
(* The two polling watchers under interrupts.  They are standalone         *)
(* programs and are followed one at a time: the delete watcher beside one  *)
(* orchestrator run, or the trigger watcher beside trigger files coming    *)
(* and going (no orchestrator started).                                    *)
(***************************************************************************)
WatchInit ==
    /\ selector = SelectorOff
    /\ \E src \in InitialSources :
          content = [f \in Files |-> IF f = "longa.py" THEN src ELSE <<>>]
    /\ faults = 0
    /\ \/ /\ \E left \in {{}, {"longa1.py", "longa2.py", "longamax.py", "loadedmax.py"}} :
             \E sel \in BOOLEAN :
                exists = [f \in Files |->
                            IF f = "longa.py" THEN TRUE
                            ELSE IF f = "loadmax.py" THEN sel
                            ELSE f \in left]
          /\ run = [r \in Runs |->
                      IF r = 1 THEN [NewRun("clean_check") EXCEPT !.started = {"orchestrator"}]
                      ELSE NewRun("idle")]
          /\ watcher = [pc |-> "check", log |-> "none"]
          /\ trig = [TrigStart({}) EXCEPT !.pc = "off"]
       \/ /\ exists = [f \in Files |-> f = "longa.py"]
          /\ run = [r \in Runs |-> NewRun("idle")]
          /\ watcher = [pc |-> "off", log |-> "none"]
          /\ \E present \in SUBSET TriggerNames : trig = TrigStart(present)

WatchNext ==
    \/ CaptureNext
    \/ WatcherCheck
    \/ WatcherRemove
    \/ WatcherInterrupt
    \/ TriggerPoll
    \/ \E f \in TriggerNames : trig.pc # "off" /\ TriggerAppear(f)
    \/ \E f \in TriggerNames : trig.pc # "off" /\ TriggerDisappear(f)
    \/ TriggerInterrupt
    \/ TriggerInterruptInWork

WatchSpec == WatchInit /\ [][WatchNext]_vars

(***************************************************************************)
(* Vocabulary of the properties                                            *)
(***************************************************************************)
NotStartedPcs == {"idle", "boot", "nofile"}

CleanupPcs == {"clean_check", "clean_rm"}

BeyondCleanup(me) == me.pc \notin (NotStartedPcs \cup CleanupPcs)

Ended(me) == me.pc \in {"done", "crashed"}

LoadFailures == {"notfound", "raised_missing", "raised_io"}

TookFailurePath(me) == me.loadLog \in LoadFailures

DeleteErrors == {"error_absent", "error_denied"}

OutcomesOf(log) == {log[k][2] : k \in 1..Len(log)}

ChildOver(childpc) == childpc \in ExitStates \cup {"nolaunch"}

ArtifactOf(agent) ==
    IF agent = "orchestrator" THEN "longa.py"
    ELSE IF agent = "successor" THEN "longa1.py"
    ELSE IF agent = "recoveryA" THEN "longamax.py"
    ELSE "loadedmax.py"

(***************************************************************************)
(* C1                                                                      *)
(***************************************************************************)
(* C1: every run that has ended completed exactly one of the two paths,    *)
(* never both and never neither.  Stated for the behaviours in which the   *)
(* environment refuses nothing (faults = 0), so that a violation is the    *)
(* cascade's own doing.                                                    *)
C1_ExactlyOnePath ==
    faults = 0 =>
        \A r \in Runs : Ended(run[r]) => (run[r].successDone # run[r].failureDone)

(* What C1 leaves standing: no run completes both paths, a run that        *)
(* reaches its end has completed exactly one (the success path only after  *)
(* a successful load, the failure path only after a failed one), and a run *)
(* that dies of an uncaught exception has completed neither.               *)
C1_AtMostOnePath ==
    \A r \in Runs :
        /\ ~(run[r].successDone /\ run[r].failureDone)
        /\ run[r].pc = "done" => (run[r].successDone # run[r].failureDone)
        /\ run[r].pc = "crashed" => (~run[r].successDone /\ ~run[r].failureDone)
        /\ run[r].successDone => run[r].imported
        /\ run[r].failureDone => (~run[r].imported /\ TookFailurePath(run[r]))

C1_Witness ==
    \E r1, r2 \in Runs : run[r1].failureDone /\ run[r2].successDone

(***************************************************************************)
(* C2                                                                      *)
(***************************************************************************)
(* C2 as stated: after a run whose load succeeded has terminated, longa.py *)
(* holds the source captured before the successor was written and          *)
(* longa1.py is gone.  Stated for the behaviours in which the environment  *)
(* refuses nothing (faults = 0).                                           *)
C2_ContentAfterRun ==
    faults = 0 =>
        \A r \in Runs :
            (run[r].pc = "done" /\ run[r].imported) =>
                /\ exists["longa.py"]
                /\ content["longa.py"] = run[r].cap1
                /\ ~exists["longa1.py"]

(* C2 amended: when the load succeeds, the successor's write leaves        *)
(* longa.py holding exactly the source captured before the successor was   *)
(* written, and once the run has terminated longa1.py does not exist       *)
(* unless the successor's own removal failed.  (The run then removes       *)
(* longa.py itself, so that content does not outlive the run.)             *)
C2_SuccessorEffect ==
    /\ [][\A r \in Runs :
            (run[r].pc = "s_write" /\ run'[r].pc = "s_del") =>
                (exists'["longa.py"] /\ content'["longa.py"] = run[r].cap1)]_vars
    /\ [](\A r \in Runs :
            (run[r].pc = "done" /\ run[r].imported
                /\ run[r].delLog["successor"] = <<"removed">>) => ~exists["longa1.py"])

C2_Witness ==
    \E r \in Runs :
        /\ run[r].pc = "done" /\ run[r].imported
        /\ run[r].delLog["successor"] = <<"removed">>
        /\ Len(run[r].cap1) > 4

(***************************************************************************)
(* C3                                                                      *)
(***************************************************************************)
(* C3: a run that went through the failure path has run both recovery      *)
(* agents, Recovery-A and then Recovery-B.  Stated for the behaviours in   *)
(* which the environment refuses nothing (faults = 0).                     *)
C3_BothRecoveriesRun ==
    faults = 0 =>
        \A r \in Runs :
            run[r].failureDone => {"recoveryA", "recoveryB"} \subseteq run[r].started

(* What C3 leaves standing, the order: the supervised run of Recovery-A    *)
(* has returned before Recovery-B is written or started, and the write and *)
(* run of Recovery-B are attempted after it.                               *)
C3_RecoveryOrder ==
    \A r \in Runs :
        /\ (run[r].pc \in {"runB", "waitB", "self_del_f"} \/ run[r].bpc # "none"
                \/ run[r].failureDone)
              => (ChildOver(run[r].apc) /\ run[r].runALog # "none")
        /\ run[r].failureDone => run[r].runBLog # "none"
        /\ "recoveryB" \in run[r].started => run[r].runALog # "none"

C3_Witness ==
    \E r \in Runs :
        run[r].failureDone /\ {"recoveryA", "recoveryB"} \subseteq run[r].finished

(***************************************************************************)
(* C4                                                                      *)
(***************************************************************************)
(* C4: a run that took the failure path and has ended had longa.py         *)
(* rewritten by its Recovery-A and exactly one detached orchestrator       *)
(* launched.  Stated for the behaviours in which the environment refuses   *)
(* nothing (faults = 0).                                                   *)
C4_ExactlyOneRespawn ==
    faults = 0 =>
        \A r \in Runs :
            (TookFailurePath(run[r]) /\ Ended(run[r])) =>
                (run[r].rewroteA >= 1 /\ run[r].launches = 1)

(* What C4 leaves standing: a run launches at most one detached            *)
(* orchestrator, and only after its Recovery-A has rewritten longa.py;     *)
(* when the supervised run of Recovery-A is logged as successful, longa.py *)
(* was rewritten exactly once during it and one detached launch was made,  *)
(* unless that launch raised.                                              *)
C4_AtMostOneRespawn ==
    \A r \in Runs :
        /\ run[r].launches <= 1
        /\ run[r].launches = 1 => run[r].rewroteA = 1
        /\ run[r].runALog = "ok" =>
              /\ run[r].rewroteA = 1
              /\ run[r].popenLog # "none"
              /\ (run[r].launches = 1) = (run[r].popenLog = "launched")
        /\ run[r].runALog \in {"calledprocesserror", "filenotfound"} => run[r].launches = 0

C4_Witness ==
    \E r \in Runs :
        run[r].failureDone /\ run[r].runALog = "ok" /\ run[r].launches = 1 /\ run[r].rewroteA = 1

(***************************************************************************)
(* C5                                                                      *)
(***************************************************************************)
(* C5 as stated: after a run has terminated and its self-delete logged no  *)
(* failure, longa.py does not exist.  Stated for the behaviours in which   *)
(* the environment refuses nothing (faults = 0).                           *)
C5_AbsentAfterRun ==
    faults = 0 =>
        \A r \in Runs :
            (run[r].pc = "done" /\ run[r].delLog["orchestrator"] = <<"removed">>)
                => ~exists["longa.py"]

(* C5 amended: a self-delete step that logs no failure leaves longa.py     *)
(* absent at that moment, on either branch; after a run that terminated    *)
(* through the success path it stays absent; after a run that terminated   *)
(* through the failure path the orchestrator launched by its Recovery-A    *)
(* may write longa.py again.                                               *)
C5_AbsentAtSelfDelete ==
    /\ [][\A r \in Runs :
            (run[r].pc \in {"self_del_s", "self_del_f"} /\ run'[r].pc = "done"
                /\ run'[r].delLog["orchestrator"] = <<"removed">>) => ~exists'["longa.py"]]_vars
    /\ [](\A r \in Runs :
            (run[r].pc = "done" /\ run[r].successDone
                /\ run[r].delLog["orchestrator"] = <<"removed">>) => ~exists["longa.py"])

C5_Witness ==
    \E r1, r2 \in Runs :
        /\ run[r1].pc = "done" /\ run[r1].failureDone
        /\ run[r1].delLog["orchestrator"] = <<"removed">>
        /\ run[r2].pc = "done" /\ run[r2].successDone
        /\ run[r2].delLog["orchestrator"] = <<"removed">>

(***************************************************************************)
(* C6                                                                      *)
(***************************************************************************)
AgentOver(me, agent) ==
    IF agent = "orchestrator" THEN Ended(me)
    ELSE IF agent = "successor" THEN me.pc \notin {"s_write", "s_del"}
    ELSE IF agent = "recoveryA" THEN me.apc \in ExitStates
    ELSE me.bpc \in ExitStates

(* C6: every self-deleting agent that started and is over attempted the    *)
(* deletion of its own artifact exactly once.  Stated for the behaviours   *)
(* in which the environment refuses nothing (faults = 0).                  *)
C6_ExactlyOneSelfDelete ==
    faults = 0 =>
        \A r \in Runs : \A a \in run[r].started :
            AgentOver(run[r], a) => Len(run[r].delLog[a]) = 1

(* What C6 leaves standing: an agent attempts the deletion of its own      *)
(* artifact at most once, exactly once when it runs to its end; a failed   *)
(* attempt is logged and the agent goes on (Recovery-A still makes its     *)
(* detached launch).                                                       *)
C6_AtMostOneSelfDelete ==
    \A r \in Runs :
        /\ \A a \in Agents :
              /\ Len(run[r].delLog[a]) <= 1
              /\ Len(run[r].delLog[a]) = 1 => a \in run[r].started
              /\ a \in run[r].finished => Len(run[r].delLog[a]) = 1
        /\ run[r].pc = "done" => Len(run[r].delLog["orchestrator"]) = 1
        /\ run[r].pc = "crashed" => Len(run[r].delLog["orchestrator"]) = 0
        /\ (Len(run[r].delLog["recoveryA"]) = 1 /\ run[r].apc \in ExitStates)
              => (run[r].apc = "exit0" /\ run[r].popenLog # "none")
        /\ (Len(run[r].delLog["recoveryB"]) = 1 /\ run[r].bpc \in ExitStates)
              => run[r].bpc = "exit0"
        /\ run[r].imported => Len(run[r].delLog["successor"]) = 1

C6_Witness ==
    \E r \in Runs :
        run[r].delLog["recoveryA"] = <<"error_denied">> /\ run[r].launches = 1

(***************************************************************************)
(* C7                                                                      *)
(***************************************************************************)
(* C7 as stated: no delete operation applied to an absent artifact is      *)
(* logged as an error.  Stated for the behaviours in which the environment *)
(* refuses nothing (faults = 0), where os.remove raises for absence only.  *)
C7_AbsentLoggedNotFound ==
    faults = 0 =>
        /\ watcher.log # "error_absent"
        /\ \A r \in Runs :
              /\ "error_absent" \notin OutcomesOf(run[r].cleanupLog)
              /\ \A a \in Agents : run[r].delLog[a] # <<"error_absent">>

(* C7 amended: a delete operation applied to an absent artifact never      *)
(* ends the process that makes it; it is logged as "not found" when the    *)
(* operation's existence check sees the artifact absent (cleanup, the      *)
(* watcher), and as a caught deletion error when os.remove itself meets    *)
(* the absent artifact (every self-delete, which has no existence check,   *)
(* and cleanup or the watcher when the artifact vanishes between the       *)
(* check and the removal).                                                 *)
C7_AbsentDelete ==
    [][/\ \A r \in Runs :
            LET a == run[r]
                b == run'[r]
            IN /\ (a.pc \in CleanupPcs /\ Len(b.cleanupLog) = Len(a.cleanupLog) + 1) =>
                     LET e == b.cleanupLog[Len(b.cleanupLog)]
                     IN /\ b.pc \in {"clean_check", "capture1"}
                        /\ ~exists[e[1]] =>
                              e[2] = (IF a.pc = "clean_check" THEN "notfound" ELSE "error_absent")
               /\ (a.pc \in CleanupPcs /\ ~exists[files_to_clean[a.i]]) =>
                     Len(b.cleanupLog) = Len(a.cleanupLog) + 1 \/ b = a
               /\ \A g \in Agents :
                     (Len(b.delLog[g]) = Len(a.delLog[g]) + 1 /\ ~exists[ArtifactOf(g)]) =>
                        /\ b.delLog[g] = <<"error_absent">>
                        /\ b.pc # "crashed"
                        /\ g = "recoveryA" => b.apc = "spawn"
                        /\ g = "recoveryB" => b.bpc = "exit0"
       /\ (watcher' # watcher /\ ~exists["longa1.py"]) =>
            /\ watcher'.pc = "check"
            /\ watcher'.log = (IF watcher.pc = "check" THEN "notfound" ELSE "error_absent")
      ]_vars

C7_Witness ==
    /\ watcher.log = "notfound"
    /\ \E r \in Runs :
          /\ run[r].delLog["successor"] = <<"error_absent">>
          /\ run[r].pc = "done"
          /\ "notfound" \in OutcomesOf(run[r].cleanupLog)

(***************************************************************************)
(* C8                                                                      *)
(***************************************************************************)
(* C8: every run deals with each of the four names, in the order longa1.py *)
(* longa2.py longamax.py loadedmax.py, once each; a missing file and a     *)
(* deletion error are logged and the loop goes on to the remaining names;  *)
(* no run ends in cleanup.                                                 *)
C8_CleanupTotal ==
    \A r \in Runs :
        /\ run[r].pc \in CleanupPcs =>
              /\ run[r].i \in 1..4
              /\ Len(run[r].cleanupLog) = run[r].i - 1
        /\ BeyondCleanup(run[r]) => Len(run[r].cleanupLog) = 4
        /\ \A k \in 1..Len(run[r].cleanupLog) :
              /\ run[r].cleanupLog[k][1] =
                    <<"longa1.py", "longa2.py", "longamax.py", "loadedmax.py">>[k]
              /\ run[r].cleanupLog[k][2] \in {"removed", "notfound"} \cup DeleteErrors
        /\ run[r].pc = "crashed" => run[r].crashedAt \in {"capture1", "write1", "mark_write", "capture2", "writeA"}

C8_Witness ==
    \E r \in Runs :
        /\ run[r].pc = "done"
        /\ \E j, k \in 1..3 :
              /\ j < k
              /\ run[r].cleanupLog[j][2] = "notfound"
              /\ run[r].cleanupLog[k][2] = "error_denied"
              /\ run[r].cleanupLog[k + 1][2] = "removed"

(***************************************************************************)
(* C9                                                                      *)
(***************************************************************************)
(* C9 as stated: the cleanup of a run launched by a previous run's failure *)
(* path logs four attempts, each "removed" or "not found".  Stated for the *)
(* behaviours in which the environment refuses nothing (faults = 0).       *)
C9_RemovedOrNotFound ==
    faults = 0 =>
        \A r \in Runs \ {1} :
            BeyondCleanup(run[r]) =>
                /\ Len(run[r].cleanupLog) = 4
                /\ OutcomesOf(run[r].cleanupLog) \subseteq {"removed", "notfound"}

(* C9 amended: the cleanup of a run launched by a previous run's failure   *)
(* path logs exactly four attempts, each resolving to "removed", "not      *)
(* found" or a caught and logged deletion error (the artifact vanished     *)
(* between the check and the removal, or the system refused); none raises  *)
(* out of cleanup.                                                         *)
C9_FourAttempts ==
    \A r \in Runs \ {1} :
        /\ BeyondCleanup(run[r]) =>
              /\ Len(run[r].cleanupLog) = 4
              /\ OutcomesOf(run[r].cleanupLog) \subseteq {"removed", "notfound"} \cup DeleteErrors
              /\ run[r - 1].launches = 1
              /\ TookFailurePath(run[r - 1])
        /\ run[r].crashedAt \notin {"clean_check", "clean_rm"}

C9_Witness ==
    \E r \in Runs \ {1} :
        /\ run[r].pc = "done"
        /\ "error_absent" \in OutcomesOf(run[r].cleanupLog)
        /\ "removed" \in OutcomesOf(run[r].cleanupLog)
        /\ "notfound" \in OutcomesOf(run[r].cleanupLog)

(***************************************************************************)
(* C10                                                                     *)
(***************************************************************************)
(* C10: the load step never ends the run; a successor absent at the check, *)
(* absent when read, or raising while it executes classifies the load as   *)
(* failed and sends the run to the recovery path; a load in which nothing  *)
(* raised classifies it as success and sends the run to the success path.  *)
C10_BranchTotal ==
    \A r \in Runs :
        /\ run[r].crashedAt \notin {"load", "load_check", "load_read", "s_write", "s_del"}
        /\ run[r].pc \in {"load_check", "load_read", "s_write", "s_del"} => run[r].loadLog = "none"
        /\ run[r].loadLog \in LoadFailures =>
              /\ ~run[r].imported
              /\ run[r].pc \in {"capture2", "writeA", "runA", "waitA", "writeB", "runB",
                                "waitB", "self_del_f", "done", "crashed"}
              /\ run[r].pc = "crashed" => run[r].crashedAt \in {"capture2", "writeA"}
              /\ ~run[r].successDone
        /\ run[r].loadLog = "imported" =>
              /\ run[r].imported
              /\ run[r].pc \in {"mark_write", "self_del_s", "done", "crashed"}
              /\ run[r].pc = "crashed" => run[r].crashedAt = "mark_write"
              /\ ~run[r].failureDone
        /\ (run[r].pc \in {"mark_write", "capture2"}) => run[r].loadLog # "none"

C10_Witness ==
    \E r1, r2 \in Runs :
        /\ run[r1].loadLog = "raised_missing" /\ run[r1].failureDone
        /\ run[r2].loadLog = "notfound" /\ Ended(run[r2])

(***************************************************************************)
(* C11                                                                     *)
(***************************************************************************)
SpawnFailures == {"calledprocesserror", "filenotfound"}

AfterRecoveryA == {"writeB", "runB", "waitB", "self_del_f", "done"}

AfterRecoveryB == {"self_del_f", "done"}

(* C11: a supervised run that fails (the child exits non-zero, or the      *)
(* launch itself fails) is logged by the orchestrator as what it was and   *)
(* never ends the orchestrator.  After a failed run of Recovery-A the      *)
(* orchestrator goes on to write Recovery-B and, the write done, to launch *)
(* it; after a failed run of either or both it attempts its self-delete,   *)
(* once, and terminates normally.                                          *)
C11_SpawnFailureTolerated ==
    \A r \in Runs :
        LET me == run[r]
        IN /\ (me.apc \in {"exit1", "exit2"} /\ me.pc # "waitA") => me.runALog = "calledprocesserror"
           /\ me.apc = "nolaunch" => me.runALog = "filenotfound"
           /\ (me.bpc \in {"exit1", "exit2"} /\ me.pc # "waitB") => me.runBLog = "calledprocesserror"
           /\ me.bpc = "nolaunch" => me.runBLog = "filenotfound"
           /\ me.runALog \in SpawnFailures => me.pc \in AfterRecoveryA
           /\ (me.runALog \in SpawnFailures /\ me.pc \in AfterRecoveryB) =>
                 (me.runBLog = "exception" \/ me.bpc # "none")
           /\ me.runBLog \in SpawnFailures => me.pc \in AfterRecoveryB
           /\ ((me.runALog \in SpawnFailures \/ me.runBLog \in SpawnFailures) /\ me.pc = "done") =>
                 (me.failureDone /\ Len(me.delLog["orchestrator"]) = 1)

C11_Witness ==
    \E r1, r2 \in Runs :
        /\ run[r1].pc = "done" /\ run[r1].runALog = "ok"
        /\ run[r1].runBLog = "calledprocesserror" /\ run[r1].bpc = "exit2"
        /\ Len(run[r1].delLog["orchestrator"]) = 1
        /\ run[r2].pc = "done" /\ run[r2].runALog = "calledprocesserror"
        /\ run[r2].bpc = "exit0" /\ run[r2].runBLog = "ok"
        /\ Len(run[r2].delLog["orchestrator"]) = 1

(***************************************************************************)
(* C12                                                                     *)
(***************************************************************************)
(* The text of a source with every em dash (UTF-8 bytes E2 80 94) replaced *)
(* by two hyphens and every en dash (E2 80 93) by one.                     *)
RECURSIVE DashNormalised(_)
DashNormalised(b) ==
    IF b = <<>> THEN <<>>
    ELSE IF Len(b) >= 3 /\ b[1] = 226 /\ b[2] = 128 /\ b[3] = 148
         THEN <<45, 45>> \o DashNormalised(SubSeq(b, 4, Len(b)))
    ELSE IF Len(b) >= 3 /\ b[1] = 226 /\ b[2] = 128 /\ b[3] = 147
         THEN <<45>> \o DashNormalised(SubSeq(b, 4, Len(b)))
    ELSE <<Head(b)>> \o DashNormalised(Tail(b))

(* C12: whatever bytes S longa.py held when it was captured, once the      *)
(* successor has written its embedded code back, longa.py reads as S with  *)
(* em dashes replaced by "--" and en dashes by "-", and nothing else       *)
(* changed.                                                                *)
C12_RoundTrip ==
    \A r \in Runs :
        run[r].pc = "s_del" => content["longa.py"] = DashNormalised(run[r].raw1)

(***************************************************************************)
(* C13                                                                     *)
(***************************************************************************)
(* Text out is the capture of bytes raw: a byte below 128 stands for       *)
(* itself, and a byte from 128 up is spelled "&#ddd;" with ddd its value   *)
(* in decimal.                                                             *)
RECURSIVE IsCaptureOf(_, _)
IsCaptureOf(out, raw) ==
    IF raw = <<>> THEN out = <<>>
    ELSE IF Head(raw) < 128
         THEN /\ Len(out) >= 1
              /\ out[1] = Head(raw)
              /\ IsCaptureOf(Tail(out), Tail(raw))
    ELSE /\ Len(out) >= 6
         /\ out[1] = 38 /\ out[2] = 35 /\ out[6] = 59
         /\ \A k \in 3..5 : out[k] \in 48..57
         /\ 100 * (out[3] - 48) + 10 * (out[4] - 48) + (out[5] - 48) = Head(raw)
         /\ IsCaptureOf(SubSeq(out, 7, Len(out)), Tail(raw))

HasCaptured(me) ==
    /\ me.pc \notin NotStartedPcs \cup CleanupPcs \cup {"capture1"}
    /\ me.crashedAt # "capture1"

(* C13: whatever bytes longa.py holds, the capture returns (the run does   *)
(* not end in it), what it returns is ASCII only, every byte below 0x80    *)
(* is in it unchanged and in place, and every other byte is replaced by    *)
(* the numeric character reference of its value.                           *)
C13_CaptureAscii ==
    \A r \in Runs :
        LET me == run[r]
        IN /\ me.crashedAt \notin {"capture1", "capture2"}
           /\ HasCaptured(me) =>
                 /\ \A k \in 1..Len(me.cap1) : me.cap1[k] < 128
                 /\ IsCaptureOf(me.cap1, me.raw1)
           /\ \A k \in 1..Len(me.cap2) : me.cap2[k] < 128

C13_Witness ==
    \E r \in Runs :
        /\ run[r].pc = "write1"
        /\ Len(run[r].raw1) >= 3
        /\ \E j, k \in 1..Len(run[r].raw1) : run[r].raw1[j] < 128 /\ run[r].raw1[k] >= 128
        /\ Len(run[r].cap1) > Len(run[r].raw1)

(***************************************************************************)
(* C14                                                                     *)
(***************************************************************************)
(* C14 as stated: a run that completed the success path has executed the   *)
(* marker agent longa2.py (between writing it and its own self-delete).    *)
C14_MarkerExecuted ==
    \A r \in Runs : run[r].successDone => "marker" \in run[r].started

(* C14 amended: on the success path the orchestrator writes longa2.py,     *)
(* then attempts its self-delete, once, then terminates, in that order and *)
(* with nothing in between; it never executes longa2.py, which is only     *)
(* written.  (An OSError at the write ends the run there.)                 *)
C14_SuccessOrder ==
    /\ [][\A r \in Runs :
            LET a == run[r]
                b == run'[r]
            IN /\ (a.pc = "mark_write" /\ b # a) =>
                     \/ b.pc = "self_del_s" /\ exists'["longa2.py"] /\ b.started = a.started
                     \/ b.pc = "crashed" /\ b.crashedAt = "mark_write"
               /\ (b.pc = "self_del_s" /\ a.pc # "self_del_s") => a.pc = "mark_write"
               /\ (a.pc = "self_del_s" /\ b # a) =>
                     /\ b.pc = "done" /\ b.successDone
                     /\ Len(b.delLog["orchestrator"]) = 1
                     /\ b.started = a.started
               /\ (b.successDone /\ ~a.successDone) => a.pc = "self_del_s"
               /\ a.pc = "done" => b = a]_vars
    /\ [](\A r \in Runs : "marker" \notin run[r].started)

C14_Witness ==
    \E r \in Runs :
        /\ run[r].pc = "done" /\ run[r].successDone
        /\ exists["longa2.py"]
        /\ run[r].delLog["orchestrator"] = <<"removed">>

(***************************************************************************)
(* C15                                                                     *)
(***************************************************************************)
(* Steps that remove a file: a cleanup removal of f by some run, a         *)
(* self-delete of each kind, the watcher's removal.                        *)
CleanupRemoves(f) ==
    \E r \in Runs : run[r].pc = "clean_rm" /\ files_to_clean[run[r].i] = f /\ run'[r] # run[r]

OrchestratorSelfDeletes ==
    \E r \in Runs : run[r].pc \in {"self_del_s", "self_del_f"} /\ run'[r].pc = "done"

SuccessorSelfDeletes == \E r \in Runs : run[r].pc = "s_del" /\ run'[r] # run[r]

RecoveryASelfDeletes == \E r \in Runs : run[r].apc = "del" /\ run'[r] # run[r]

RecoveryBSelfDeletes == \E r \in Runs : run[r].bpc = "del" /\ run'[r] # run[r]

WatcherRemoves == watcher.pc = "remove" /\ watcher' # watcher

(* C15 as stated: no artifact is removed by anything but its own agent,    *)
(* so the cleanup never logs a removal and neither does the watcher.       *)
(* Stated for the behaviours in which the environment refuses nothing.     *)
C15_OwnerOnly ==
    faults = 0 =>
        /\ watcher.log # "removed"
        /\ \A r \in Runs : "removed" \notin OutcomesOf(run[r].cleanupLog)

(* C15 amended: longa.py is removed only by an orchestrator's self-delete; *)
(* longa1.py only by the successor itself, by an orchestrator's cleanup or *)
(* by the delete watcher; longamax.py and loadedmax.py only by the agent   *)
(* itself or by an orchestrator's cleanup; longa2.py only by an            *)
(* orchestrator's cleanup; loadmax.py by nothing.                          *)
C15_Deleters ==
    [][\A f \in Files :
         (exists[f] /\ ~exists'[f]) =>
            IF f = "longa.py" THEN OrchestratorSelfDeletes
            ELSE IF f = "longa1.py" THEN SuccessorSelfDeletes \/ CleanupRemoves(f) \/ WatcherRemoves
            ELSE IF f = "longa2.py" THEN CleanupRemoves(f)
            ELSE IF f = "longamax.py" THEN RecoveryASelfDeletes \/ CleanupRemoves(f)
            ELSE IF f = "loadedmax.py" THEN RecoveryBSelfDeletes \/ CleanupRemoves(f)
            ELSE FALSE]_vars

C15_Witness ==
    /\ watcher.log = "removed"
    /\ \E r1, r2 \in Runs :
          /\ run[r1].delLog["recoveryA"] = <<"removed">>
          /\ run[r1].delLog["orchestrator"] = <<"removed">>
          /\ <<"loadedmax.py", "removed">> \in Range(run[r2].cleanupLog)
          /\ r2 > r1
          /\ run[r2].delLog["successor"] = <<"removed">>

(***************************************************************************)
(* C16                                                                     *)
(***************************************************************************)
(* What Recovery-A of a run has done so far: ticks counted, rewrites of    *)
(* longa.py, self-delete attempts, detached launches attempted.            *)
DoneByA(me) ==
    <<me.ticks, me.rewroteA, Len(me.delLog["recoveryA"]), IF me.popenLog = "none" THEN 0 ELSE 1>>

(* C16: Recovery-A counts three ticks, then rewrites longa.py, then        *)
(* attempts its self-delete, then attempts the detached launch, and ends:  *)
(* at each point of it exactly the earlier steps have been done, each      *)
(* once; no launch is attempted before longa.py has been rewritten, and    *)
(* nothing follows the launch.                                             *)
C16_RecoveryASequence ==
    \A r \in Runs :
        LET me == run[r]
        IN /\ me.apc \in {"none", "start", "nolaunch", "exit2"} => DoneByA(me) = <<0, 0, 0, 0>>
           /\ me.apc = "tick" => (me.ticks < 3 /\ DoneByA(me) = <<me.ticks, 0, 0, 0>>)
           /\ me.apc = "write" => DoneByA(me) = <<3, 0, 0, 0>>
           /\ me.apc = "exit1" => DoneByA(me) = <<3, 0, 0, 0>>
           /\ me.apc = "del" => DoneByA(me) = <<3, 1, 0, 0>>
           /\ me.apc = "spawn" => DoneByA(me) = <<3, 1, 1, 0>>
           /\ me.apc = "exit0" => DoneByA(me) = <<3, 1, 1, 1>>
           /\ me.launches = (IF me.popenLog = "launched" THEN 1 ELSE 0)
           /\ (r < MaxRuns /\ run[r + 1].pc # "idle") => DoneByA(me) = <<3, 1, 1, 1>>

C16_Witness ==
    \E r \in Runs :
        /\ run[r].apc = "exit0"
        /\ run[r].ticks = 3 /\ run[r].rewroteA = 1
        /\ run[r].delLog["recoveryA"] = <<"removed">>
        /\ run[r].popenLog = "launched"
        /\ r < MaxRuns /\ run[r + 1].pc = "boot"

(***************************************************************************)
(* C17                                                                     *)
(***************************************************************************)
(* C17: Recovery-B runs the selector exactly when loadmax.py exists at its *)
(* check and otherwise logs "not found" and runs nothing; whether the      *)
(* selector was skipped, ended well or failed, Recovery-B goes on to       *)
(* attempt its self-delete, once, and never dies of the selector's         *)
(* failure.                                                                *)
C17_RecoveryBSelector ==
    \A r \in Runs :
        LET me == run[r]
            deletes == Len(me.delLog["recoveryB"])
        IN /\ me.bpc \in {"none", "start", "check", "nolaunch", "exit2"} =>
                 (me.selLog = "none" /\ deletes = 0)
           /\ me.bpc = "sel" => (exists["loadmax.py"] /\ me.selLog = "none" /\ deletes = 0)
           /\ me.bpc = "del" => (me.selLog # "none" /\ deletes = 0)
           /\ me.bpc = "exit0" => (me.selLog # "none" /\ deletes = 1)
           /\ me.selLog = "notfound" => ~exists["loadmax.py"]
           /\ me.selLog \in {"ok", "error"} => exists["loadmax.py"]
           /\ me.bpc # "exit1"

C17_Witness ==
    \E r1, r2 \in Runs :
        /\ run[r1].bpc = "exit0" /\ run[r1].selLog = "error"
        /\ run[r1].delLog["recoveryB"] = <<"removed">>
        /\ run[r2].bpc = "exit0" /\ run[r2].selLog = "ok"
        /\ Len(run[r2].delLog["recoveryB"]) = 1

C17_WitnessSkipped ==
    \E r \in Runs :
        /\ run[r].bpc = "exit0" /\ run[r].selLog = "notfound"
        /\ run[r].delLog["recoveryB"] = <<"removed">>

(***************************************************************************)
(* C18                                                                     *)
(***************************************************************************)
(* The step in which the watcher deals with trigger file f. *)
Polls(f) == target_files[trig.k] = f /\ trig'.k # trig.k

(* C18 as stated: whenever the watcher has dealt with a trigger file it    *)
(* has performed that file's action once for each time the file appeared,  *)
(* whatever the sequence of appearances and disappearances.                *)
C18_OncePerAppearance ==
    [][\A f \in TriggerNames : Polls(f) => trig'.acts[f] = trig'.appear[f]]_vars

(* C18 amended: the watcher performs a file's action at a poll that finds  *)
(* the file present when the file is not marked processed, and marks it;   *)
(* while later polls find it present it does not repeat the action; a poll *)
(* that finds it absent clears the mark, so that the next poll finding it  *)
(* present acts again.  It never performs the action more often than the   *)
(* file appeared, but what happens between two polls goes unseen: a file   *)
(* that appears and disappears between two polls triggers nothing, and one *)
(* that disappears and reappears between two polls is not acted on again.  *)
C18_OncePerObservedAppearance ==
    /\ [](\A f \in TriggerNames :
            /\ trig.acts[f] <= trig.appear[f]
            /\ f \in trig.processed => trig.acts[f] >= 1
            /\ trig.status[f] = "none" => trig.acts[f] = 0)
    /\ [][\A f \in TriggerNames :
            IF Polls(f)
            THEN /\ (f \in trig.present /\ f \notin trig.processed) =>
                       /\ trig'.acts[f] = trig.acts[f] + 1
                       /\ f \in trig'.processed
                       /\ trig'.status[f] = "found"
                 /\ (f \in trig.present /\ f \in trig.processed) =>
                       /\ trig'.acts[f] = trig.acts[f]
                       /\ f \in trig'.processed
                       /\ trig'.status[f] = "still"
                 /\ f \notin trig.present =>
                       /\ trig'.acts[f] = trig.acts[f]
                       /\ f \notin trig'.processed
                       /\ trig'.status[f] = "missing"
            ELSE /\ trig'.acts[f] = trig.acts[f]
                 /\ (f \in trig'.processed) = (f \in trig.processed)]_vars

C18_Witness ==
    \E f, g \in TriggerNames :
        /\ f # g
        /\ trig.acts[f] = 2 /\ trig.appear[f] = 2 /\ trig.status[f] = "found"
        /\ trig.acts[g] = 1 /\ trig.appear[g] = 2 /\ trig.status[g] = "still"

(***************************************************************************)
(* C19                                                                     *)
(***************************************************************************)
UnguardedSteps == {"capture1", "write1", "capture2", "writeA", "mark_write"}

(* C19: a run in which an unguarded step raised (the first capture, the    *)
(* write of longa1.py, the second capture, the write of longamax.py, the   *)
(* write of longa2.py) has ended at that step: it never takes another      *)
(* step, it has completed neither path and it has not attempted its        *)
(* self-delete; nothing of what follows the step in the script was done.   *)
C19_UncaughtEndsRun ==
    /\ [](\A r \in Runs :
            LET me == run[r]
            IN /\ (me.crashedAt # "none") = (me.pc = "crashed")
               /\ me.pc = "crashed" =>
                     /\ me.crashedAt \in UnguardedSteps
                     /\ me.delLog["orchestrator"] = <<>>
                     /\ ~me.successDone /\ ~me.failureDone
                     /\ "orchestrator" \notin me.finished
                     /\ me.apc = "none" /\ me.bpc = "none" /\ me.launches = 0
                     /\ me.crashedAt \in {"capture1", "write1"} => me.loadLog = "none"
                     /\ me.crashedAt = "capture1" => me.cap1 = <<>>
                     /\ me.crashedAt \in {"capture2", "writeA"} => TookFailurePath(me)
                     /\ me.crashedAt = "capture2" => me.cap2 = <<>>
                     /\ me.crashedAt = "mark_write" => me.imported)
    /\ [][\A r \in Runs : run[r].pc = "crashed" => run'[r] = run[r]]_vars

C19_Witness ==
    \E r \in Runs :
        /\ run[r].pc = "crashed" /\ run[r].crashedAt = "capture2"
        /\ run[r].loadLog = "notfound"
        /\ \A q \in Runs : Ended(run[q])
        /\ faults = 0

(***************************************************************************)
(* C20                                                                     *)
(***************************************************************************)
(* The states of the run's state machine a run has passed through, read    *)
(* off what it has done.                                                   *)
PassedCleanup(me) == BeyondCleanup(me) /\ Len(me.cleanupLog) = Len(files_to_clean)

PassedSuccessorWritten(me) == HasCaptured(me) /\ me.pc # "write1" /\ me.crashedAt # "write1"

PassedSuccessBranch(me) == me.imported /\ me.successDone

PassedFailureBranch(me) ==
    /\ TookFailurePath(me)
    /\ me.runALog # "none"
    /\ me.runBLog # "none"
    /\ me.failureDone

(* C20: a run whose process is over went through START, CLEANUP, CAPTURED, *)
(* SUCCESSOR_WRITTEN and then through LOAD_OK, MARKED or through           *)
(* LOAD_FAIL, RECOVERY_A_DONE, RECOVERY_B_DONE before it terminated.       *)
(* Stated for the behaviours in which the environment refuses nothing      *)
(* (faults = 0).                                                           *)
C20_FullSequence ==
    faults = 0 =>
        \A r \in Runs :
            LET me == run[r]
            IN Ended(me) =>
                  /\ PassedCleanup(me)
                  /\ HasCaptured(me)
                  /\ PassedSuccessorWritten(me)
                  /\ PassedSuccessBranch(me) \/ PassedFailureBranch(me)

(* What C20 leaves standing: the states are passed in the order given,     *)
(* each at most once, and the two branches exclude each other.             *)
C20_OrderKept ==
    \A r \in Runs :
        LET me == run[r]
        IN /\ HasCaptured(me) => PassedCleanup(me)
           /\ me.loadLog # "none" => PassedSuccessorWritten(me)
           /\ me.imported => (me.loadLog = "imported" /\ me.runALog = "none" /\ me.runBLog = "none")
           /\ me.runALog # "none" => TookFailurePath(me)
           /\ me.runBLog # "none" => me.runALog # "none"
           /\ me.failureDone => me.runBLog # "none"
           /\ me.successDone => me.imported

(***************************************************************************)
(* C21                                                                     *)
(***************************************************************************)
(* What the trigger watcher has done: its place in the loop, its marks,    *)
(* its messages and the operations it ran.                                 *)
TriggerDone == <<trig.k, trig.processed, trig.status, trig.acts>>

(* C21: a watcher that an interrupt has taken out of its loop stays out    *)
(* and does nothing more (the delete watcher removes nothing and logs      *)
(* nothing, the trigger watcher polls nothing, runs no operation and marks *)
(* nothing); the delete watcher leaves its loop by no step of the loop     *)
(* itself: the step that takes it out removes nothing, is refused nothing  *)
(* and logs nothing, and a removal that fails, by refusal or because the   *)
(* file vanished after the check, is logged and followed by the next       *)
(* check.                                                                  *)
C21_InterruptStops ==
    [][/\ watcher.pc = "stopped" => watcher' = watcher
       /\ trig.pc = "stopped" => (trig'.pc = "stopped" /\ TriggerDone' = TriggerDone)
       /\ (watcher.pc # "stopped" /\ watcher'.pc = "stopped") =>
              (watcher'.log = watcher.log /\ UNCHANGED <<exists, content, faults>>)
       /\ (trig.pc # "stopped" /\ trig'.pc = "stopped") =>
              (trig'.k = trig.k /\ trig'.processed = trig.processed
                  /\ UNCHANGED <<exists, content, faults>>)
       /\ (watcher.pc = "remove" /\ watcher'.pc # "stopped" /\ watcher' # watcher) =>
              /\ watcher'.pc = "check"
              /\ watcher'.log \in {"removed"} \cup DeleteErrors
              /\ (watcher'.log = "removed") = (exists["longa1.py"] /\ ~exists'["longa1.py"])
      ]_vars

(* The delete watcher failed to remove longa1.py, went on, was interrupted *)
(* and the orchestrator beside it then ran to its end on the success path, *)
(* longa1.py having been written and left to the successor.                *)
C21_Witness ==
    /\ watcher.pc = "stopped"
    /\ watcher.log = "error_denied"
    /\ run[1].pc = "done"
    /\ run[1].imported

(* The trigger watcher was interrupted inside an operation, and a trigger  *)
(* file that it never acted on is present.                                 *)
C21_WitnessTrigger ==
    /\ trig.pc = "stopped"
    /\ \E f, g \in TriggerNames :
          /\ f \in trig.present /\ f \notin trig.processed /\ trig.acts[f] = 1
          /\ g \in trig.present /\ trig.acts[g] = 0 /\ trig.appear[g] = 1

(***************************************************************************)
(* C22                                                                     *)
(***************************************************************************)
RecoveryArtifacts == {"longamax.py", "loadedmax.py"}

SuccessPcs == {"mark_write", "self_del_s"}

FailurePcs == {"capture2", "writeA", "runA", "waitA", "writeB", "runB", "waitB", "self_del_f"}

(* C22: the step that writes longa2.py is taken only by a run whose load   *)
(* of the successor succeeded, and longa2.py comes into existence by no    *)
(* other step; a run whose load succeeded is never at a step of the        *)
(* failure path, has started neither recovery agent, has launched nothing  *)
(* and no step of it touches longamax.py or loadedmax.py; a run whose load *)
(* failed is never at a step of the success path and never completes it.   *)
C22_BranchArtifacts ==
    /\ [](\A r \in Runs :
            LET me == run[r]
            IN /\ me.imported =>
                     /\ me.pc \notin FailurePcs
                     /\ me.crashedAt \in {"none", "mark_write"}
                     /\ me.apc = "none" /\ me.bpc = "none"
                     /\ me.runALog = "none" /\ me.runBLog = "none"
                     /\ me.launches = 0 /\ me.popenLog = "none"
                     /\ ~me.failureDone
               /\ TookFailurePath(me) =>
                     /\ me.pc \notin SuccessPcs
                     /\ me.crashedAt # "mark_write"
                     /\ ~me.successDone
               /\ me.pc \in SuccessPcs => me.imported
               /\ me.pc \in FailurePcs => (~me.imported /\ TookFailurePath(me)))
    /\ [][/\ (~exists["longa2.py"] /\ exists'["longa2.py"]) =>
               \E r \in Runs : /\ run[r].pc = "mark_write" /\ run'[r].pc = "self_del_s"
                               /\ run[r].imported
          /\ \A r \in Runs :
               /\ (run[r].pc = "mark_write" /\ run'[r].pc = "self_del_s") =>
                     (run[r].imported /\ exists'["longa2.py"])
               /\ (run[r].imported /\ run'[r] # run[r]) =>
                     \A f \in RecoveryArtifacts :
                        exists'[f] = exists[f] /\ content'[f] = content[f]
         ]_vars

(* One run has completed the failure path and the run its Recovery-A       *)
(* launched has completed the success path and left the marker.            *)
C22_Witness ==
    \E r1, r2 \in Runs :
        /\ run[r1].failureDone /\ "none" \notin {run[r1].runALog, run[r1].runBLog}
        /\ run[r2].successDone
        /\ exists["longa2.py"]
        /\ <<"longa2.py", "notfound">> \in Range(run[r2].cleanupLog)
           \/ <<"longa2.py", "removed">> \in Range(run[r2].cleanupLog)

(***************************************************************************)
(* C23                                                                     *)
(***************************************************************************)
(* The entered text is an integer from 1 to 4. *)
ValidEntry(text) == ParseInt(text).ok /\ ParseInt(text).val \in 1..4

(* C23: the selector has a choice only when the text entered last is an    *)
(* integer from 1 to 4, and the choice is that integer; an entry that is   *)
(* no number or is out of range is counted as rejected, leaves the         *)
(* selector at its prompt and changes no file; the selector writes at most *)
(* one file, only once it has a choice, and a selector run that has ended  *)
(* after a choice, the environment refusing nothing, has written exactly   *)
(* one file, longastop<choice>.py, which then exists; no other trigger     *)
(* file appears or disappears.                                             *)
C23_SelectorChoice ==
    /\ [](/\ selector.pc \in {"create", "done"} =>
               /\ ValidEntry(selector.entered)
               /\ selector.choice = ParseInt(selector.entered).val
          /\ selector.pc \in {"prompt", "create", "crashed"} => selector.created = <<>>
          /\ (selector.pc = "prompt" /\ selector.rejected > 0) =>
               (~ValidEntry(selector.entered) /\ selector.said \in {"valueerror", "invalid_selection"})
          /\ selector.pc = "done" =>
               /\ selector.created \in {<<>>, <<file_name(selector.choice)>>}
               /\ faults = 0 =>
                     /\ selector.created = <<file_name(selector.choice)>>
                     /\ file_name(selector.choice) \in TriggerNames
                     /\ file_name(selector.choice) \in trig.present)
    /\ [][/\ (selector.pc = "prompt" /\ selector' # selector
                  /\ selector'.pc # "crashed" /\ ~ValidEntry(selector'.entered)) =>
               /\ selector'.pc = "prompt"
               /\ selector'.rejected = selector.rejected + 1
               /\ selector'.said = (IF ParseInt(selector'.entered).ok
                                    THEN "invalid_selection" ELSE "valueerror")
               /\ UNCHANGED <<exists, content, trig>>
          /\ trig'.present = trig.present \cup Range(selector'.created)
          /\ selector.pc # "create" => trig' = trig
         ]_vars

(* After two rejected entries the text "+4" was accepted and longastop4.py *)
(* created, beside a trigger file that was there before.                   *)
C23_Witness ==
    /\ selector.pc = "done"
    /\ selector.rejected = 2
    /\ selector.entered = <<43, 52>>
    /\ selector.created = <<"longastop4.py">>
    /\ trig.present = {"longastop1.py", "longastop4.py"}
    /\ trig.appear["longastop4.py"] = 1

(***************************************************************************)
(* C24                                                                     *)
(***************************************************************************)
(* One regeneration cycle of a script on itself: the script captures its   *)
(* own file with its own get_clean_ascii_code, the text goes through the   *)
(* literal embedded in longa1.py or longamax.py and is written back.       *)
Regenerate(script) ==
    Utf8Encode(EmbeddedCode(longa1_code(get_clean_ascii_code(Line23Of(script), script))))

(* C24: the text a run captured is unchanged by the function that captured *)
(* it; and a run started from a regenerated longa.py (every run but the    *)
(* first) captures exactly the bytes it reads, so that the cycle leaves    *)
(* longa.py as it was.  Stated for the behaviours in which the environment *)
(* refuses nothing (faults = 0).                                           *)
C24_RegenerationStable ==
    faults = 0 =>
        \A r \in Runs :
            HasCaptured(run[r]) =>
                /\ get_clean_ascii_code(run[r].line23, run[r].cap1) = run[r].cap1
                /\ r > 1 => run[r].cap1 = run[r].raw1

(* What C24 leaves standing: every captured text is unchanged by the       *)
(* function that captured it and by the function of the repository's       *)
(* longa.py ...                                                            *)
C24_CaptureIdempotent ==
    \A r \in Runs :
        HasCaptured(run[r]) =>
            /\ get_clean_ascii_code(run[r].line23, run[r].cap1) = run[r].cap1
            /\ get_clean_ascii_code(OriginalLine23, run[r].cap1) = run[r].cap1

(* ... and the first two cycles each change longa.py (the first turns the  *)
(* dashes of line 23 into character references, the second turns those    *)
(* references into hyphens); from the third on a cycle changes nothing.    *)
C24_SettlesAtThird ==
    \A src \in InitialSources :
        LET g1 == Regenerate(src)
            g2 == Regenerate(g1)
        IN /\ Line23Of(src) = OriginalLine23
           /\ g1 # src
           /\ g2 # g1
           /\ Regenerate(g2) = g2

(***************************************************************************)
(* C25                                                                     *)
(***************************************************************************)
(* Run r has written loadedmax.py and its supervised run of it has not yet *)
(* opened the script.                                                      *)
RecoveryBPending(me) == me.pc \in {"runB", "waitB"} /\ me.bpc \in {"none", "start"}

(* C25: while a run has written loadedmax.py and its supervised run of it  *)
(* has not yet opened the script, loadedmax.py exists, and no supervised   *)
(* run of Recovery-B ends for want of its script.  Stated for the          *)
(* behaviours in which the environment refuses nothing (faults = 0).       *)
C25_RecoveryBFindsArtifact ==
    faults = 0 =>
        \A r \in Runs :
            /\ RecoveryBPending(run[r]) => exists["loadedmax.py"]
            /\ run[r].bpc # "exit2"

(***************************************************************************)
(* C26                                                                     *)
(***************************************************************************)
(* C26: an orchestrator launched by Recovery-A (every run but the first)   *)
(* that stands at its first capture finds longa.py there, and none ends at *)
(* that capture.  Stated for the behaviours in which the environment       *)
(* refuses nothing (faults = 0).                                           *)
C26_LaunchedRunCaptures ==
    faults = 0 =>
        \A r \in Runs :
            r > 1 =>
                /\ run[r].pc = "capture1" => exists["longa.py"]
                /\ run[r].crashedAt # "capture1"

====
